---- MODULE Spec2Model ----
(***************************************************************************)
(* Model of the location-based attendance system: the Flask ingestion      *)
(* service (attendance_server.py) with its AttendanceDatabase adapter, and *)
(* the ESP32 scanner (esp32_ble_scanner.py) that posts to it.              *)
(*                                                                         *)
(* Strings are sequences of one-character strings, so that str.strip,      *)
(* int(), strptime and strftime are computed and not assumed.              *)
(***************************************************************************)
EXTENDS Integers, Sequences, FiniteSets, TLC

VARIABLES
    db,     \* the AttendanceDatabase handle and the MySQL table behind it
    storeUp,\* whether the MySQL server accepts connections
    req,    \* the request being answered (the last one handled)
    resp,   \* the response returned for req
    trace,  \* the store accesses made while handling req, in order
    pre,    \* the queryable record set just before req was handled
    sent,   \* history: for each accepted POST, the row id it created and
            \* the timestamp string exactly as it was submitted
    params, \* the parameter tuple (limit,) of the SELECT executed for req,
            \* <<>> when req executed none
    sc,     \* the BLEAttendanceScanner object and its loop position
    flt,    \* one call of the Beacon Filter: its inputs and its result
    srv     \* the server handling requests in concurrent threads: the shared
            \* handle, the connections made, the table and each thread

vars == <<db, storeUp, req, resp, trace, pre, sent, params, sc, flt, srv>>

----------------------------------------------------------------------------
(* Bounds *)

\* at most this many INSERT statements are issued (auto-increment ids used)
MaxRecords == 2

\* at most this many connections are made by the threads of one run
MaxConns == 3

----------------------------------------------------------------------------
(* Characters and strings *)

Digits == <<"0", "1", "2", "3", "4", "5", "6", "7", "8", "9">>

IsDigit(c) == \E i \in 1..10 : Digits[i] = c

DigitVal(c) == (CHOOSE i \in 1..10 : Digits[i] = c) - 1

IsSpace(c) == c = " "

\* s[i], or "" past either end of s
At(s, i) == IF i \in 1..Len(s) THEN s[i] ELSE ""

Min(S) == CHOOSE x \in S : \A y \in S : x <= y

Max(S) == CHOOSE x \in S : \A y \in S : x >= y

\* str.strip(): leading and trailing whitespace removed
strip(s) ==
    LET keep == {i \in 1..Len(s) : ~IsSpace(s[i])}
    IN IF keep = {} THEN <<>> ELSE SubSeq(s, Min(keep), Max(keep))

\* the number written by the n digits of s that start at position i
RECURSIVE NumAt(_, _, _)
NumAt(s, i, n) ==
    IF n = 0 THEN 0 ELSE NumAt(s, i, n - 1) * 10 + DigitVal(s[i + n - 1])

AllDigits(s, i, n) == \A k \in i..(i + n - 1) : IsDigit(At(s, k))

\* n written with exactly w digits, zero padded ("{:0wd}" / %m, %d, ...)
RECURSIVE Pad(_, _)
Pad(n, w) ==
    IF w = 0 THEN <<>> ELSE Append(Pad(n \div 10, w - 1), Digits[(n % 10) + 1])

----------------------------------------------------------------------------
(* JSON values of a request payload *)

Absent == [t |-> "absent", s |-> <<>>, n |-> 0]
Null == [t |-> "null", s |-> <<>>, n |-> 0]
Str(s) == [t |-> "str", s |-> s, n |-> 0]
Num(n) == [t |-> "num", s |-> <<>>, n |-> n]

----------------------------------------------------------------------------
(* Python conversions used by the server *)

\* int(v): ok with the integer, or the exception Python raises
\* (a str is stripped, may carry a sign, and must then be all digits)
int(v) ==
    IF v.t = "num" THEN [exc |-> "none", n |-> v.n]
    ELSE IF v.t = "str" THEN
        LET b == strip(v.s)
            signed == At(b, 1) \in {"-", "+"}
            d == IF signed THEN Tail(b) ELSE b
        IN IF Len(d) > 0 /\ AllDigits(d, 1, Len(d))
           THEN [exc |-> "none",
                 n |-> IF At(b, 1) = "-" THEN 0 - NumAt(d, 1, Len(d))
                       ELSE NumAt(d, 1, Len(d))]
           ELSE [exc |-> "ValueError", n |-> 0]
    ELSE [exc |-> "TypeError", n |-> 0]

IsLeap(y) == (y % 4 = 0 /\ y % 100 # 0) \/ y % 400 = 0

DaysInMonth(y, m) ==
    IF m = 2 THEN (IF IsLeap(y) THEN 28 + 1 ELSE 28)
    ELSE IF m \in {4, 6, 9, 11} THEN 30 ELSE 30 + 1

\* how many characters a one-or-two digit directive (%m %d %H %M %S) takes at i
TakeLen(s, i) ==
    IF IsDigit(At(s, i)) THEN (IF IsDigit(At(s, i + 1)) THEN 2 ELSE 1) ELSE 0

\* the first position at or after i that holds no whitespace
SkipSpaces(s, i) == Min({j \in i..(Len(s) + 1) : ~IsSpace(At(s, j))})

NoDate == <<0, 0, 0, 0, 0, 0>>

\* datetime.datetime.strptime(s, '%Y-%m-%d %H:%M:%S'): %Y is exactly four
\* digits, the other directives one or two digits, the blank of the format is
\* one or more whitespace characters, nothing may remain after %S, and the
\* fields must form a valid date and time. ok = FALSE stands for ValueError.
strptime(s) ==
    LET lm == TakeLen(s, 6)
        pM == 6 + lm
        ld == TakeLen(s, pM + 1)
        pD == pM + 1 + ld
        pH == SkipSpaces(s, pD)
        lh == TakeLen(s, pH)
        pC1 == pH + lh
        lmi == TakeLen(s, pC1 + 1)
        pC2 == pC1 + 1 + lmi
        ls == TakeLen(s, pC2 + 1)
        pEnd == pC2 + 1 + ls
        shape == /\ AllDigits(s, 1, 4) /\ At(s, 5) = "-"
                 /\ lm > 0 /\ At(s, pM) = "-"
                 /\ ld > 0 /\ pH > pD
                 /\ lh > 0 /\ At(s, pC1) = ":"
                 /\ lmi > 0 /\ At(s, pC2) = ":"
                 /\ ls > 0 /\ pEnd = Len(s) + 1
        y == NumAt(s, 1, 4)
        m == NumAt(s, 6, lm)
        d == NumAt(s, pM + 1, ld)
        h == NumAt(s, pH, lh)
        mi == NumAt(s, pC1 + 1, lmi)
        sec == NumAt(s, pC2 + 1, ls)
    IN IF /\ shape
          /\ y >= 1 /\ m \in 1..12 /\ d >= 1 /\ d <= DaysInMonth(y, m)
          /\ h <= 23 /\ mi <= 59 /\ sec <= 59
       THEN [ok |-> TRUE, dt |-> <<y, m, d, h, mi, sec>>]
       ELSE [ok |-> FALSE, dt |-> NoDate]

\* the rendering of datetime.isoformat(), with "T" between date and time
strftime_iso(dt) ==
    Pad(dt[1], 4) \o <<"-">> \o Pad(dt[2], 2) \o <<"-">> \o Pad(dt[3], 2)
    \o <<"T">> \o Pad(dt[4], 2) \o <<":">> \o Pad(dt[5], 2) \o <<":">>
    \o Pad(dt[6], 2)

\* dt.strftime('%Y-%m-%d %H:%M:%S'), for the years of MySQL's DATETIME range
\* (1000 to 9999), where %Y has four digits on every platform
strftime(dt) ==
    Pad(dt[1], 4) \o <<"-">> \o Pad(dt[2], 2) \o <<"-">> \o Pad(dt[3], 2)
    \o <<" ">> \o Pad(dt[4], 2) \o <<":">> \o Pad(dt[5], 2) \o <<":">>
    \o Pad(dt[6], 2)

\* datetime ordering, the key of ORDER BY entry_timestamp
DtLess(a, b) ==
    \E k \in 1..6 : a[k] < b[k] /\ \A j \in 1..(k - 1) : a[j] = b[j]

DtLeq(a, b) == a = b \/ DtLess(a, b)

----------------------------------------------------------------------------
(* AttendanceDatabase: the shared handle and the attendance table *)

\* db.conn    "none": self.connection is None; "open": is_connected();
\*            "stale": a connection object that is no longer connected
\* db.records the committed rows of the attendance table, in insertion order
\* db.pending the rows written on the handle's open transaction
\* db.nextId  the table's AUTO_INCREMENT counter
Visible(d) == d.records \o d.pending

\* AttendanceDatabase.connect under server reachability up: a new connection
\* replaces the handle (its transaction is new), or Error is caught
connect(d, up) ==
    IF up THEN [ok |-> TRUE, db |-> [d EXCEPT !.conn = "open", !.pending = <<>>]]
    ELSE [ok |-> FALSE, db |-> d]

\* AttendanceDatabase.disconnect
disconnect(d) ==
    IF d.conn = "open" THEN [d EXCEPT !.conn = "stale", !.pending = <<>>] ELSE d

\* a rollback that keeps the open transaction's writes
rollback_missing(d) == d

\* connection.rollback(): the open transaction's writes are discarded
rollback(d) == [d EXCEPT !.pending = <<>>]

\* a commit that replaces the table by the transaction's writes
commit_replacing(d) == [d EXCEPT !.records = d.pending, !.pending = <<>>]

\* connection.commit(): the open transaction's writes become durable
commit(d) == [d EXCEPT !.records = @ \o d.pending, !.pending = <<>>]

\* an INSERT that writes the row twice
execute_insert_twice(d, student_mac, classroom_id, timestamp_obj) ==
    LET row == [id |-> d.nextId, mac |-> student_mac, cid |-> classroom_id,
                ts |-> timestamp_obj]
    IN [d EXCEPT !.pending = @ \o <<row, [row EXCEPT !.id = @ + 1]>>,
                 !.nextId = @ + 2]

\* cursor.execute(insert_query, record_data)
execute_insert(d, student_mac, classroom_id, timestamp_obj) ==
    [d EXCEPT !.pending = Append(@, [id |-> d.nextId, mac |-> student_mac,
                                    cid |-> classroom_id, ts |-> timestamp_obj]),
              !.nextId = @ + 1]

\* a prologue that goes on after a connect that failed
ensure_connection_ignoring_failure(d, up) ==
    LET probe == IF d.conn = "none" THEN <<>> ELSE <<"is_connected">>
    IN IF d.conn = "open"
       THEN [ok |-> TRUE, db |-> d, trace |-> probe]
       ELSE [ok |-> TRUE, db |-> connect(d, up).db,
             trace |-> probe \o <<"connect">>]

\* the reconnect-on-demand prologue shared by both store operations:
\* the handle is probed, and connect() is called when it is absent or stale
ensure_connection(d, up) ==
    LET probe == IF d.conn = "none" THEN <<>> ELSE <<"is_connected">>
    IN IF d.conn = "open"
       THEN [ok |-> TRUE, db |-> d, trace |-> probe]
       ELSE [ok |-> connect(d, up).ok, db |-> connect(d, up).db,
             trace |-> probe \o <<"connect">>]

\* AttendanceDatabase.insert_attendance_record; fault names the statement the
\* store rejects with mysql.connector.Error ("none" when it accepts them all)
insert_attendance_record(d, up, fault, student_mac, classroom_id, timestamp) ==
    LET c == ensure_connection(d, up)
        p == strptime(timestamp)
        w == execute_insert(c.db, student_mac, classroom_id, p.dt)
    IN IF ~c.ok THEN [ret |-> FALSE, db |-> c.db, trace |-> c.trace]
       ELSE IF ~p.ok
       THEN [ret |-> FALSE, db |-> c.db, trace |-> c.trace \o <<"cursor">>]
       ELSE IF fault = "execute"
       THEN [ret |-> FALSE, db |-> rollback(c.db),
             trace |-> c.trace \o <<"cursor", "execute", "rollback">>]
       ELSE IF fault = "commit"
       THEN [ret |-> FALSE, db |-> rollback(w),
             trace |-> c.trace \o <<"cursor", "execute", "commit", "rollback">>]
       ELSE [ret |-> TRUE, db |-> commit(w),
             trace |-> c.trace \o <<"cursor", "execute", "commit">>]

\* every order ORDER BY entry_timestamp DESC may return the rows in
\* (rows with equal timestamps come in an order MySQL does not fix)
SortedOrders(rows) ==
    {o \in [1..Len(rows) -> 1..Len(rows)] :
        /\ \A i, j \in 1..Len(rows) : i # j => o[i] # o[j]
        /\ \A i, j \in 1..Len(rows) :
              i < j => DtLeq(rows[o[j]].ts, rows[o[i]].ts)}

\* the dictionary rows returned to the caller, entry_timestamp rendered
render(row) ==
    [id |-> row.id, student_mac_address |-> row.mac,
     classroom_id |-> row.cid, entry_timestamp |-> strftime(row.ts)]

\* AttendanceDatabase.get_recent_attendance; order is the row order the
\* store picked among SortedOrders, fault as in insert_attendance_record
db_get_recent_attendance(d, up, fault, limit, order) ==
    LET c == ensure_connection(d, up)
        rows == Visible(c.db)
        n == IF limit < Len(rows) THEN limit ELSE Len(rows)
    IN IF ~c.ok
       THEN [ret |-> <<>>, db |-> c.db, trace |-> c.trace, params |-> <<>>]
       ELSE IF fault = "execute" \/ limit < 0
       THEN [ret |-> <<>>, db |-> c.db,
             trace |-> c.trace \o <<"cursor", "execute">>,
             params |-> <<limit>>]
       ELSE [ret |-> [i \in 1..n |-> render(rows[order[i]])], db |-> c.db,
             trace |-> c.trace \o <<"cursor", "execute">>,
             params |-> <<limit>>]

----------------------------------------------------------------------------
(* Flask handlers *)

DefaultLimit == 10
MaxLimit == 100

required_fields == <<"student_mac_address", "classroom_id", "timestamp">>

NoRequest ==
    [op |-> "init", kind |-> "none", extra |-> FALSE,
     data |-> [student_mac_address |-> Absent, classroom_id |-> Absent,
               timestamp |-> Absent],
     limit |-> Absent, fault |-> "none", up |-> FALSE]

Response(status, success, message) ==
    [status |-> status, success |-> success, message |-> message,
     missing |-> <<>>, echo |-> <<>>, data |-> <<>>, database_status |-> ""]

\* `not data` for the decoded body: None, or an object without any key
Falsy(r) ==
    \/ r.kind = "none"
    \/ /\ r.kind = "object" /\ ~r.extra
       /\ \A i \in 1..3 : r.data[required_fields[i]].t = "absent"

missing_fields(r) ==
    SelectSeq(required_fields, LAMBDA f : r.data[f].t = "absent")

\* the handler's range check on the coerced classroom id
classroom_id_rejected_negative_only(classroom_id) == classroom_id < 0

classroom_id_rejected(classroom_id) == classroom_id <= 0

\* POST /api/attendance
record_attendance(d, up, r) ==
    LET keep(rsp) == [resp |-> rsp, db |-> d, trace |-> <<>>]
        internal == keep(Response(500, FALSE, "Internal server error"))
        mac == r.data.student_mac_address
        cid == int(r.data.classroom_id)
        ts == r.data.timestamp
        ins == insert_attendance_record(d, up, r.fault, strip(mac.s), cid.n,
                                        strip(ts.s))
    IN IF r.kind = "malformed" THEN internal
       ELSE IF Falsy(r)
       THEN keep(Response(400, FALSE, "No JSON data provided"))
       ELSE IF missing_fields(r) # <<>>
       THEN keep([Response(400, FALSE, "Missing required fields")
                    EXCEPT !.missing = missing_fields(r)])
       ELSE IF mac.t # "str" THEN internal
       ELSE IF cid.exc = "ValueError"
       THEN keep(Response(400, FALSE, "Invalid data format"))
       ELSE IF cid.exc = "TypeError" THEN internal
       ELSE IF ts.t # "str" THEN internal
       ELSE IF strip(mac.s) = <<>>
       THEN keep(Response(400, FALSE, "Student MAC address cannot be empty"))
       ELSE IF classroom_id_rejected(cid.n)
       THEN keep(Response(400, FALSE, "Classroom ID must be a positive integer"))
       ELSE IF ins.ret
       THEN [resp |-> [Response(200, TRUE, "Attendance recorded successfully")
                         EXCEPT !.echo = <<[student_mac_address |-> strip(mac.s),
                                            classroom_id |-> cid.n,
                                            timestamp |-> strip(ts.s)]>>],
             db |-> ins.db, trace |-> ins.trace]
       ELSE [resp |-> Response(500, FALSE,
                               "Failed to record attendance in database"),
             db |-> ins.db, trace |-> ins.trace]

\* the limit taken from the query string without the cap
query_limit_uncapped(r) ==
    IF r.limit.t = "str" /\ int(r.limit).exc = "none"
    THEN int(r.limit).n ELSE DefaultLimit

\* request.args.get('limit', 10, type=int), capped at 100
query_limit(r) ==
    LET l == IF r.limit.t = "str" /\ int(r.limit).exc = "none"
             THEN int(r.limit).n ELSE DefaultLimit
    IN IF l > MaxLimit THEN MaxLimit ELSE l

\* GET /api/attendance/recent with a store failure answered as an error
get_recent_attendance_failing(d, up, r, order) ==
    LET q == db_get_recent_attendance(d, up, r.fault, query_limit(r), order)
    IN IF q.params = <<>> \/ r.fault = "execute" \/ query_limit(r) < 0
       THEN [resp |-> Response(500, FALSE, "Failed to retrieve attendance records"),
             db |-> q.db, trace |-> q.trace, params |-> q.params]
       ELSE [resp |-> [Response(200, TRUE, "Retrieved recent attendance records")
                         EXCEPT !.data = q.ret],
             db |-> q.db, trace |-> q.trace, params |-> q.params]

\* GET /api/attendance/recent
get_recent_attendance(d, up, r, order) ==
    LET q == db_get_recent_attendance(d, up, r.fault, query_limit(r), order)
    IN [resp |-> [Response(200, TRUE, "Retrieved recent attendance records")
                    EXCEPT !.data = q.ret],
        db |-> q.db, trace |-> q.trace, params |-> q.params]

\* GET /api/health answering 500 when the probe fails
health_check_failing(d, up) ==
    LET c == connect(d, up)
    IN [resp |-> IF c.ok
                 THEN [Response(200, TRUE, "Server is running")
                         EXCEPT !.database_status = "connected"]
                 ELSE Response(500, FALSE, "Health check failed"),
        db |-> c.db, trace |-> <<"connect">>]

\* GET /api/health
health_check(d, up) ==
    LET c == connect(d, up)
    IN [resp |-> [Response(200, TRUE, "Server is running")
                    EXCEPT !.database_status =
                        IF c.ok THEN "connected" ELSE "disconnected"],
        db |-> c.db, trace |-> <<"connect">>]

\* initialize_server: the start-up connection test, connect then disconnect
initialize_server(d, up) ==
    IF connect(d, up).ok THEN disconnect(connect(d, up).db) ELSE d

----------------------------------------------------------------------------
(* Request inputs *)

T1 == <<"2", "0", "2", "4", "-", "0", "1", "-", "1", "5", " ", "0", "9", ":", "3", "0", ":", "0", "0">>
T2Loose == <<" ", "2", "0", "2", "4", "-", "2", "-", "2", "9", " ", " ", "9", ":", "0", "5", ":", "0", "0", " ">>
NotADate == <<"n", "o", "t", "-", "a", "-", "d", "a", "t", "e">>

MacValues == {Absent, Str(<<" ", "a", "b", " ">>), Str(<<" ">>), Num(7)}

CidValues ==
    {Absent, Num(1), Num(0), Str(<<"-", "1">>), Str(<<"x">>), Null}

TsValues == {Absent, Str(T1), Str(T2Loose), Str(NotADate), Num(5)}

LimitValues ==
    {Absent, Str(<<"1">>), Str(<<"2">>), Str(<<"1", "0", "0">>),
     Str(<<"2", "0", "0">>), Str(<<"0">>), Str(<<"-", "1">>), Str(<<"x">>)}

Body(kind, extra, mac, cid, ts) ==
    [NoRequest EXCEPT !.op = "record", !.kind = kind, !.extra = extra,
        !.data = [student_mac_address |-> mac, classroom_id |-> cid,
                  timestamp |-> ts]]

\* the decoded JSON bodies: an object with any of the three fields (and, for
\* the object without them, with or without another key), a null body, and
\* a body that is not JSON
Payloads ==
    {Body("object", FALSE, m, c, s) : m \in MacValues, c \in CidValues,
                                      s \in TsValues}
    \cup {Body("object", TRUE, Absent, Absent, Absent),
          Body("none", FALSE, Absent, Absent, Absent),
          Body("malformed", FALSE, Absent, Absent, Absent)}

\* a payload that passes every check of the handler and of the adapter
Accepted(r) ==
    /\ r.kind = "object" /\ missing_fields(r) = <<>>
    /\ r.data.student_mac_address.t = "str"
    /\ strip(r.data.student_mac_address.s) # <<>>
    /\ int(r.data.classroom_id).exc = "none" /\ int(r.data.classroom_id).n > 0
    /\ r.data.timestamp.t = "str" /\ strptime(strip(r.data.timestamp.s)).ok

----------------------------------------------------------------------------
(* The ESP32 scanner (esp32_ble_scanner.py): Beacon Filter, clock, Reporter *)

TARGET_SERVICE_UUID ==
    <<"1", "2", "3", "4", "5", "6", "7", "8", "-", "1", "2", "3", "4", "-",
      "5", "6", "7", "8", "-", "1", "2", "3", "4", "-",
      "5", "6", "7", "8", "9", "a", "b", "c", "d", "e", "f", "0">>

CLASSROOM_ID == 101

HexDigits ==
    <<"0", "1", "2", "3", "4", "5", "6", "7", "8", "9",
      "a", "b", "c", "d", "e", "f">>

UpperCase ==
    <<"A", "B", "C", "D", "E", "F", "G", "H", "I", "J", "K", "L", "M",
      "N", "O", "P", "Q", "R", "S", "T", "U", "V", "W", "X", "Y", "Z">>

LowerCase ==
    <<"a", "b", "c", "d", "e", "f", "g", "h", "i", "j", "k", "l", "m",
      "n", "o", "p", "q", "r", "s", "t", "u", "v", "w", "x", "y", "z">>

\* the lower-case letter of each upper-case letter
LowerOf ==
    [c \in {UpperCase[k] : k \in 1..26} |->
        LowerCase[CHOOSE k \in 1..26 : UpperCase[k] = c]]

\* str.lower()
lower(s) ==
    [i \in 1..Len(s) |-> IF s[i] \in DOMAIN LowerOf THEN LowerOf[s[i]] ELSE s[i]]

\* target_uuid.replace("-", "")
replace_dash(s) == SelectSeq(s, LAMBDA c : c # "-")

\* sep.join(parts)
RECURSIVE join(_, _)
join(sep, parts) ==
    IF parts = <<>> THEN <<>>
    ELSE IF Len(parts) = 1 THEN parts[1]
    ELSE parts[1] \o sep \o join(sep, Tail(parts))

\* a byte written without the leading zero
format_x(b) ==
    IF b < 16 THEN <<HexDigits[b + 1]>>
    ELSE <<HexDigits[(b \div 16) + 1], HexDigits[(b % 16) + 1]>>

\* "{:02x}".format(b) for a byte
format_02x(b) == <<HexDigits[(b \div 16) + 1], HexDigits[(b % 16) + 1]>>

\* Python's `sub in s` for strings
contains(sub, s) ==
    LET needle == sub
        hay == s
    IN \E i \in 0..(Len(hay) - Len(needle)) :
          \A k \in 1..Len(needle) : hay[i + k] = needle[k]

\* an advertisement payload: a byte string, or a value that cannot be
\* iterated as bytes (None)
Bytes(b) == [t |-> "bytes", b |-> b]
NotBytes == [t |-> "none", b |-> <<>>]

\* BLEAttendanceScanner.is_target_beacon: any exception yields False
is_target_beacon(target_uuid, adv_data) ==
    IF adv_data.t # "bytes" THEN FALSE
    ELSE LET target_uuid_bytes == lower(replace_dash(target_uuid))
             adv_hex == join(<<>>, [i \in 1..Len(adv_data.b) |->
                                        format_02x(adv_data.b[i])])
             adv_lower == lower(adv_hex)
         IN contains(target_uuid_bytes, adv_lower)

\* the machine.RTC reading: the 8-tuple (year, month, day, weekday, hours,
\* minutes, seconds, subseconds), or a failure to read it
RtcTuple(dt) == [ok |-> TRUE, dt |-> dt]
RtcFailure == [ok |-> FALSE, dt |-> <<0, 0, 0, 0, 0, 0, 0, 0>>]

EpochSentinel ==
    <<"1", "9", "7", "0", "-", "0", "1", "-", "0", "1", " ",
      "0", "0", ":", "0", "0", ":", "0", "0">>

\* a clock routine whose fallback is the zero date
get_current_timestamp_zero_date(rtc) ==
    IF rtc.ok
    THEN Pad(rtc.dt[1], 4) \o <<"-">> \o Pad(rtc.dt[2], 2) \o <<"-">>
         \o Pad(rtc.dt[3], 2) \o <<" ">> \o Pad(rtc.dt[5], 2) \o <<":">>
         \o Pad(rtc.dt[6], 2) \o <<":">> \o Pad(rtc.dt[7], 2)
    ELSE <<"0", "0", "0", "0", "-", "0", "0", "-", "0", "0", " ",
           "0", "0", ":", "0", "0", ":", "0", "0">>

\* BLEAttendanceScanner.get_current_timestamp
get_current_timestamp(rtc) ==
    IF rtc.ok
    THEN Pad(rtc.dt[1], 4) \o <<"-">> \o Pad(rtc.dt[2], 2) \o <<"-">>
         \o Pad(rtc.dt[3], 2) \o <<" ">> \o Pad(rtc.dt[5], 2) \o <<":">>
         \o Pad(rtc.dt[6], 2) \o <<":">> \o Pad(rtc.dt[7], 2)
    ELSE EpochSentinel

\* ":".join(["{:02x}".format(b) for b in addr])
mac_string(addr) ==
    join(<<":">>, [i \in 1..Len(addr) |-> format_02x(addr[i])])

\* the entry scan_for_beacons appends for a matching result
beacon_entry(result, rtc) ==
    [mac_address |-> mac_string(result.addr), rssi |-> result.rssi,
     timestamp |-> get_current_timestamp(rtc)]

\* a payload without the classroom id
payload_without_classroom(classroom_id, beacon_data) ==
    Body("object", FALSE, Str(beacon_data.mac_address), Absent,
         Str(beacon_data.timestamp))

\* the JSON body send_attendance_data posts for a detected beacon
payload(classroom_id, beacon_data) ==
    Body("object", FALSE, Str(beacon_data.mac_address), Num(classroom_id),
         Str(beacon_data.timestamp))

\* the position of run_continuous_scan in the scanner that main() builds
\* with CLASSROOM_ID and TARGET_SERVICE_UUID:
\*   pc                "idle" (before a tick, in utime.sleep), "scanning"
\*                     (in scan_for_beacons, before the results are read),
\*                     "collecting" (in its for loop), "reporting" (in the
\*                     for loop of run_continuous_scan), "stopped"
\*   prev              history: the phase left by the last change of pc
\*   scan_results      the list gap_scan_stop returned, i the next index
\*   window            history: the number of results of the last window
\*   erred             history: some exception was caught since the start
\*   detected_beacons  the list being built and then reported, j the next
\*   collected         history: the entries appended since the tick began
\*   attempts          history: the POSTs made since the tick began
\*   last              the last event of the loop
ScannerBoot ==
    [pc |-> "idle", prev |-> "idle", scan_results |-> <<>>, i |-> 1,
     window |-> 0, erred |-> FALSE,
     detected_beacons |-> <<>>, j |-> 1, collected |-> <<>>,
     attempts |-> <<>>, last |-> "boot"]

\* scan_for_beacons is entered: "Starting BLE scan..."
scan_started(s) ==
    [s EXCEPT !.pc = "scanning", !.prev = s.pc, !.last = "scan_started"]

\* an exception in scan_for_beacons that ends the loop
scan_failed_fatal(s) ==
    [s EXCEPT !.pc = "stopped", !.prev = s.pc, !.scan_results = <<>>,
              !.detected_beacons = <<>>, !.j = 1, !.erred = TRUE,
              !.last = "scan_error"]

\* except Exception in scan_for_beacons: the tick goes on with return []
scan_failed(s) ==
    [s EXCEPT !.pc = "reporting", !.prev = s.pc, !.scan_results = <<>>,
              !.detected_beacons = <<>>, !.j = 1, !.erred = TRUE,
              !.last = "scan_error"]

\* the results are read but the list of the last tick is kept
window_closed_keeping(s, results) ==
    [s EXCEPT !.pc = "collecting", !.prev = s.pc, !.scan_results = results,
              !.i = 1, !.window = Len(results), !.last = "window_closed"]

\* scan_results = gap_scan_stop(); detected_beacons = []
window_closed(s, results) ==
    [s EXCEPT !.pc = "collecting", !.prev = s.pc, !.scan_results = results,
              !.i = 1, !.window = Len(results), !.detected_beacons = <<>>,
              !.last = "window_closed"]

\* one pass of the for loop of scan_for_beacons over a well-formed result
collect_one(s, rtc) ==
    LET result == s.scan_results[s.i]
    IN IF is_target_beacon(TARGET_SERVICE_UUID, result.adv_data)
       THEN [s EXCEPT !.i = @ + 1,
                      !.detected_beacons = Append(@, beacon_entry(result, rtc)),
                      !.erred = @ \/ ~rtc.ok,
                      !.last = "detected"]
       ELSE [s EXCEPT !.i = @ + 1, !.last = "ignored"]

\* return detected_beacons, and the for loop of run_continuous_scan begins
scan_returned(s) ==
    [s EXCEPT !.pc = "reporting", !.prev = s.pc, !.scan_results = <<>>,
              !.j = 1, !.last = "returned"]

\* a send whose failure ends the tick
after_send_aborting(s, status) ==
    IF status = 200 THEN [s EXCEPT !.j = @ + 1, !.last = "sent"]
    ELSE [s EXCEPT !.pc = "idle", !.prev = s.pc, !.erred = TRUE,
                   !.last = "recovered"]

\* send_attendance_data has returned: status is the status code received,
\* 0 when urequests.post or ujson.loads raised
after_send(s, status) ==
    [s EXCEPT !.j = @ + 1, !.erred = @ \/ status # 200,
              !.last = IF status = 200 THEN "sent" ELSE "send_failed"]

\* utime.sleep(SCAN_INTERVAL) at the end of the tick
slept(s) == [s EXCEPT !.pc = "idle", !.prev = s.pc, !.last = "slept"]

\* except Exception in run_continuous_scan, which sleeps the same interval
recovered(s) ==
    [s EXCEPT !.pc = "idle", !.prev = s.pc, !.erred = TRUE,
              !.last = "recovered"]

\* except KeyboardInterrupt: break, and the loop's variables are gone
cancelled(s) ==
    [ScannerBoot EXCEPT !.pc = "stopped", !.prev = s.pc, !.last = "cancelled"]

----------------------------------------------------------------------------
(* Scanner inputs *)

AddrA == <<170, 187, 204, 221, 238, 255>>
AddrB == <<1, 35, 69, 103, 137, 171>>

UuidBytes ==
    <<18, 52, 86, 120, 18, 52, 86, 120, 18, 52, 86, 120, 154, 188, 222, 240>>

AdvMatch == Bytes(<<17, 7>> \o UuidBytes)
AdvOther == Bytes(<<2, 1, 6>>)

\* what gap_scan_stop yields per device: (addr_type, addr, adv_type, rssi,
\* adv_data), or a value that does not unpack into five fields
Result(addr, rssi, adv_data) ==
    [ok |-> TRUE, addr |-> addr, rssi |-> rssi, adv_data |-> adv_data]
BadResult == [ok |-> FALSE, addr |-> <<>>, rssi |-> 0, adv_data |-> NotBytes]

ScanOutcomes ==
    {<<Result(AddrA, -60, AdvMatch)>>,
     <<Result(AddrA, -60, NotBytes), Result(AddrB, -71, AdvOther)>>,
     <<Result(AddrA, -60, AdvMatch), Result(AddrB, -71, AdvMatch)>>,
     <<Result(AddrB, -71, AdvMatch), BadResult>>}

RtcReadings == {RtcTuple(<<2024, 1, 15, 0, 9, 30, 0, 0>>), RtcFailure}

\* inputs of the Beacon Filter
FilterTargets ==
    {TARGET_SERVICE_UUID, <<"A", "B", "-", "c", "d">>, <<"0", "a">>,
     <<"a", "b">>, <<"a", ":", "b">>, <<"-">>, <<>>}

FilterPayloads ==
    {Bytes(<<>>), NotBytes, AdvMatch, AdvOther, Bytes(UuidBytes),
     Bytes(<<171, 205>>), Bytes(<<10, 188, 208>>), Bytes(<<10>>),
     Bytes(<<10, 11>>), Bytes(<<205, 171>>),
     Bytes(<<18, 52, 86, 120, 18, 52, 86, 120, 18, 52, 86, 120, 154, 188, 222>>)}

\* the Beacon Filter not yet applied to its inputs
FilterCall(target_uuid, adv_data) ==
    [target_uuid |-> target_uuid, adv_data |-> adv_data, done |-> FALSE,
     ret |-> FALSE]

----------------------------------------------------------------------------
(* The server with threaded = True: requests handled in concurrent threads *)
(* that share db.connection                                                *)

\* the threads that handle requests
Threads == {1, 2}

\* the adapter as constructed, before any connect
NoHandle == [conn |-> "none", records |-> <<>>, pending |-> <<>>, nextId |-> 1]

\* a connection object: whether it is connected, and the rows written on its
\* open transaction
Connection(open) == [open |-> open, pending |-> <<>>]

\* a thread: pc is "idle" (no request, or its request is answered), "check"
\* (at the handle test of a store operation), "connect", "cursor", "execute",
\* "commit", "rollback" or "select"; r is its request, cursor the connection
\* its cursor was made on (0: none), id the id its INSERT was given (0: none)
\* and status the status code it answered (0: none yet)
ThreadIdle == [pc |-> "idle", r |-> NoRequest, cursor |-> 0, id |-> 0, status |-> 0]

\* the threaded server after initialize_server left the adapter as d:
\*   up         whether the MySQL server accepts connections
\*   connection db.connection: 0 for None, or the index of a connection
\*   conns      the connection objects made so far
\*   records    the committed rows of the table, nextId its AUTO_INCREMENT
\*   overlap    history: two requests were in progress at the same time
ThreadedBoot(d, up) ==
    [up |-> up,
     connection |-> IF d.conn = "none" THEN 0 ELSE 1,
     conns |-> IF d.conn = "none" THEN <<>> ELSE <<Connection(d.conn = "open")>>,
     records |-> d.records, nextId |-> d.nextId,
     threads |-> [t \in Threads |-> ThreadIdle], overlap |-> FALSE]

\* the adapter's view of the store through connection c
OnConn(s, c) ==
    [conn |-> IF s.conns[c].open THEN "open" ELSE "stale",
     records |-> s.records, pending |-> s.conns[c].pending, nextId |-> s.nextId]

\* the store after a statement on connection c left the view d
Stored(s, c, d) ==
    [s EXCEPT !.records = d.records, !.nextId = d.nextId,
              !.conns[c].pending = d.pending]

\* the thread goes on at pc
Goto(s, t, pc) == [s EXCEPT !.threads[t].pc = pc]

\* the thread's handler returns its response
Respond(s, t, status) ==
    [s EXCEPT !.threads[t].pc = "idle", !.threads[t].status = status,
              !.threads[t].cursor = 0]

\* the POST bodies the threads are given: a valid one, one whose timestamp
\* does not parse, one whose classroom id is rejected
ThreadPayloads ==
    {Body("object", FALSE, Str(<<" ", "a", "b", " ">>), Num(1), Str(T1)),
     Body("object", FALSE, Str(<<" ", "a", "b", " ">>), Num(1), Str(NotADate)),
     Body("object", FALSE, Str(<<" ", "a", "b", " ">>), Num(0), Str(T1))}

----------------------------------------------------------------------------
(* State machine *)

ServerInit ==
    \E up \in BOOLEAN :
        /\ storeUp = up
        /\ db = initialize_server([conn |-> "none", records |-> <<>>,
                                   pending |-> <<>>, nextId |-> 1], up)
        /\ req = NoRequest
        /\ resp = Response(0, FALSE, "")
        /\ trace = <<>>
        /\ pre = <<>>
        /\ sent = <<>>
        /\ params = <<>>

\* the server started, the scanner constructed and not yet in its loop
Init ==
    /\ ServerInit
    /\ sc = ScannerBoot
    /\ flt = FilterCall(<<>>, Bytes(<<>>))
    /\ srv = ThreadedBoot(NoHandle, FALSE)

Handled(r, out) ==
    /\ req' = [r EXCEPT !.up = storeUp]
    /\ resp' = out.resp
    /\ db' = out.db
    /\ trace' = out.trace
    /\ pre' = Visible(db)
    /\ sent' = IF r.op = "record" /\ out.resp.status = 200
               THEN Append(sent, [id |-> db.nextId,
                                  timestamp |-> r.data.timestamp.s])
               ELSE sent
    /\ UNCHANGED storeUp

\* a POST /api/attendance is handled; the store rejects a statement only
\* for the requests that reach one
RecordAttendance ==
    /\ db.nextId <= MaxRecords
    /\ \E r \in Payloads :
       \E f \in IF Accepted(r) THEN {"none", "execute", "commit"} ELSE {"none"} :
       \E out \in {record_attendance(db, storeUp, [r EXCEPT !.fault = f])} :
          Handled([r EXCEPT !.fault = f], out) /\ params' = <<>>
    /\ UNCHANGED <<sc, flt, srv>>

\* a GET /api/attendance/recent is handled
RecentAttendance ==
    /\ \E l \in LimitValues, f \in {"none", "execute"} :
       \E o \in SortedOrders(Visible(db)) :
        LET r == [NoRequest EXCEPT !.op = "recent", !.limit = l, !.fault = f]
        IN \E out \in {get_recent_attendance(db, storeUp, r, o)} :
              Handled(r, out) /\ params' = out.params
    /\ UNCHANGED <<sc, flt, srv>>

\* a GET /api/health is handled
HealthCheck ==
    /\ \E out \in {health_check(db, storeUp)} :
        Handled([NoRequest EXCEPT !.op = "health"], out) /\ params' = <<>>
    /\ UNCHANGED <<sc, flt, srv>>

\* the MySQL server becomes unreachable: an open handle is no longer connected
StoreFails ==
    /\ storeUp
    /\ storeUp' = FALSE
    /\ db' = [db EXCEPT !.conn = IF @ = "open" THEN "stale" ELSE @,
                        !.pending = <<>>]
    /\ UNCHANGED <<req, resp, trace, pre, sent, params, sc, flt, srv>>

\* the MySQL server is reachable again
StoreRecovers ==
    /\ ~storeUp
    /\ storeUp' = TRUE
    /\ UNCHANGED <<db, req, resp, trace, pre, sent, params, sc, flt, srv>>

Next ==
    \/ RecordAttendance
    \/ RecentAttendance
    \/ HealthCheck
    \/ StoreFails
    \/ StoreRecovers

Spec == Init /\ [][Next]_vars

----------------------------------------------------------------------------
(* The scanner loop, run_continuous_scan, posting to the server *)

server == <<db, storeUp, req, resp, trace, pre, sent, params>>

\* the record of one POST attempt: the entry sent, whether the request
\* reached the server, whether the store was up, the status code received
\* (0 when none), the id of the row created (0 when none) and the number
\* of queryable rows before and after
Attempt(beacon, delivered, up, status, id, before, after) ==
    [sighting |-> beacon, delivered |-> delivered, up |-> up,
     status |-> status, id |-> id, before |-> before, after |-> after]

\* while True: the next tick begins with the call of scan_for_beacons
StartScan ==
    /\ sc.pc = "idle"
    /\ sc' = [scan_started(sc) EXCEPT !.collected = <<>>, !.attempts = <<>>]
    /\ UNCHANGED <<server, flt, srv>>

\* gap_scan, utime.sleep(3) or gap_scan_stop raises
ScanFails ==
    /\ sc.pc = "scanning"
    /\ sc' = scan_failed(sc)
    /\ UNCHANGED <<server, flt, srv>>

\* the window ends and gap_scan_stop returns its results
CloseWindow ==
    /\ sc.pc = "scanning"
    /\ \E results \in ScanOutcomes : sc' = window_closed(sc, results)
    /\ UNCHANGED <<server, flt, srv>>

\* one result is unpacked, filtered and, when it matches, timestamped; a
\* result that does not unpack raises and the scan returns []
CollectOne ==
    /\ sc.pc = "collecting" /\ sc.i <= Len(sc.scan_results)
    /\ IF ~sc.scan_results[sc.i].ok THEN sc' = scan_failed(sc)
       ELSE \E rtc \in RtcReadings :
            LET n == collect_one(sc, rtc)
            IN sc' = [n EXCEPT !.collected =
                        IF n.last = "detected"
                        THEN Append(@, n.detected_beacons[Len(n.detected_beacons)])
                        ELSE @]
    /\ UNCHANGED <<server, flt, srv>>

\* every result was seen: scan_for_beacons returns detected_beacons
ReturnDetected ==
    /\ sc.pc = "collecting" /\ sc.i > Len(sc.scan_results)
    /\ sc' = scan_returned(sc)
    /\ UNCHANGED <<server, flt, srv>>

\* send_attendance_data for the next detected beacon: the POST is handled
\* by the server and its response read, or urequests.post raises
SendOne ==
    /\ sc.pc = "reporting" /\ sc.j <= Len(sc.detected_beacons)
    /\ LET beacon == sc.detected_beacons[sc.j]
           r == payload(CLASSROOM_ID, beacon)
           log(a) == [sc EXCEPT !.attempts = Append(@, a)]
       IN \/ /\ db.nextId <= MaxRecords
             /\ \E out \in {record_attendance(db, storeUp, r)} :
                   /\ Handled(r, out) /\ params' = <<>>
                   /\ sc' = after_send(
                          log(Attempt(beacon, TRUE, storeUp, out.resp.status,
                                      IF out.resp.status = 200
                                      THEN db.nextId ELSE 0,
                                      Len(Visible(db)), Len(Visible(out.db)))),
                          out.resp.status)
          \/ /\ sc' = after_send(
                          log(Attempt(beacon, FALSE, storeUp, 0, 0,
                                      Len(Visible(db)), Len(Visible(db)))), 0)
             /\ UNCHANGED server
    /\ UNCHANGED <<flt, srv>>

\* the for loop is over: the tick ends in utime.sleep(SCAN_INTERVAL)
Sleep ==
    /\ sc.pc = "reporting" /\ sc.j > Len(sc.detected_beacons)
    /\ sc' = slept(sc)
    /\ UNCHANGED <<server, flt, srv>>

\* a statement of the loop body outside the two guarded calls raises: the
\* handler logs it and sleeps the same interval
Recover ==
    /\ sc.pc = "reporting" /\ sc.j > Len(sc.detected_beacons)
    /\ sc' = recovered(sc)
    /\ UNCHANGED <<server, flt, srv>>

\* KeyboardInterrupt anywhere in the loop
Cancel ==
    /\ sc.pc # "stopped"
    /\ sc' = cancelled(sc)
    /\ UNCHANGED <<server, flt, srv>>

\* a client asks for the latest record between two ticks
FollowingQuery ==
    /\ sc.pc = "idle"
    /\ \E o \in SortedOrders(Visible(db)) :
        LET r == [NoRequest EXCEPT !.op = "recent", !.limit = Str(<<"1">>)]
        IN \E out \in {get_recent_attendance(db, storeUp, r, o)} :
              Handled(r, out) /\ params' = out.params
    /\ UNCHANGED <<sc, flt, srv>>

\* the steps of the loop between its guarded calls
LoopStep ==
    \/ StartScan
    \/ ScanFails
    \/ CloseWindow
    \/ ReturnDetected
    \/ Sleep
    \/ Recover

\* the steps of the loop inside is_target_beacon, get_current_timestamp
\* and send_attendance_data
GuardedCall ==
    \/ CollectOne
    \/ SendOne

\* ENABLED <<GuardedCall>>_vars: a result is left to filter or an entry is
\* left to send (each of the two steps advances its index)
GuardedCallEnabled ==
    \/ sc.pc = "collecting" /\ sc.i <= Len(sc.scan_results)
    \/ sc.pc = "reporting" /\ sc.j <= Len(sc.detected_beacons)

ScannerStep ==
    \/ LoopStep
    \/ GuardedCall

\* the loop, its cancellation and the store it posts to
LoopNext ==
    \/ ScannerStep
    \/ Cancel
    \/ StoreFails
    \/ StoreRecovers

\* the same with a client that reads the latest record
ScannerNext ==
    \/ LoopNext
    \/ FollowingQuery

ScannerSpec == Init /\ [][ScannerNext]_vars

\* the loop is scheduled: a step of run_continuous_scan that can be taken
\* is eventually taken (every blocking call returns or raises). The second
\* conjunct is WF_vars(GuardedCall) with its ENABLED written out.
FairScannerSpec ==
    /\ Init /\ [][LoopNext]_vars
    /\ WF_vars(LoopStep)
    /\ ([]<>(~GuardedCallEnabled) \/ []<><<GuardedCall>>_vars)

----------------------------------------------------------------------------
(* The Beacon Filter applied to chosen inputs *)

FilterInit ==
    /\ ServerInit
    /\ sc = ScannerBoot
    /\ \E t \in FilterTargets, a \in FilterPayloads : flt = FilterCall(t, a)
    /\ srv = ThreadedBoot(NoHandle, FALSE)

ApplyFilter ==
    /\ ~flt.done
    /\ flt' = [flt EXCEPT !.done = TRUE,
                          !.ret = is_target_beacon(flt.target_uuid, flt.adv_data)]
    /\ UNCHANGED <<server, sc, srv>>

FilterNext == ApplyFilter

FilterSpec == FilterInit /\ [][FilterNext]_vars

----------------------------------------------------------------------------
(* Requests handled in concurrent threads, statement by statement *)

others == <<db, storeUp, req, resp, trace, pre, sent, params, sc, flt>>

Thread(t) == srv.threads[t]

\* a thread is given a request. A POST that fails the handler's checks is
\* answered at once (they touch nothing shared); another POST goes on to
\* insert_attendance_record, a GET recent to get_recent_attendance and a
\* health check to db.connect()
Accept(t) ==
    /\ Thread(t).pc = "idle"
    /\ \E r \in ThreadPayloads
              \cup {[NoRequest EXCEPT !.op = "recent"],
                    [NoRequest EXCEPT !.op = "health"]} :
       \E f \in IF Accepted(r) THEN {"none", "execute"} ELSE {"none"} :
       \E checks \in {record_attendance(NoHandle, FALSE, r)} :
          LET fresh == [ThreadIdle EXCEPT !.r = [r EXCEPT !.fault = f]]
              busy == \E u \in Threads \ {t} : Thread(u).pc # "idle"
          IN srv' = [srv EXCEPT
                 !.overlap = @ \/ busy,
                 !.threads[t] =
                     IF r.op = "record" /\ checks.trace = <<>>
                     THEN [fresh EXCEPT !.status = checks.resp.status]
                     ELSE IF r.op = "health"
                     THEN [fresh EXCEPT !.pc = "connect"]
                     ELSE [fresh EXCEPT !.pc = "check"]]
    /\ UNCHANGED others

\* if not self.connection or not self.connection.is_connected()
CheckHandle(t) ==
    /\ Thread(t).pc = "check"
    /\ LET h == srv.connection
       IN srv' = Goto(srv, t, IF h # 0 /\ srv.conns[h].open
                              THEN "cursor" ELSE "connect")
    /\ UNCHANGED others

\* self.connection = mysql.connector.connect(**self.config): a new
\* connection replaces the handle and the one it held is not closed; or
\* Error is caught and connect returns False
ThreadConnect(t) ==
    /\ Thread(t).pc = "connect"
    /\ IF srv.up
       THEN /\ Len(srv.conns) < MaxConns
            /\ LET made == [srv EXCEPT !.conns = Append(@, Connection(TRUE)),
                                       !.connection = Len(srv.conns) + 1]
               IN srv' = IF Thread(t).r.op = "health"
                         THEN Respond(made, t, 200)
                         ELSE Goto(made, t, "cursor")
       ELSE srv' = Respond(srv, t, IF Thread(t).r.op = "record" THEN 500 ELSE 200)
    /\ UNCHANGED others

\* cursor = self.connection.cursor(), and for a POST the parse of the
\* timestamp that follows it. On a connection that is no longer connected
\* cursor() raises Error: the insert goes to its handler, the query returns []
OpenCursor(t) ==
    /\ Thread(t).pc = "cursor"
    /\ LET h == srv.connection
           th == Thread(t)
           made == [srv EXCEPT !.threads[t].cursor = h]
       IN srv' = IF ~srv.conns[h].open
                 THEN (IF th.r.op = "record" THEN Goto(srv, t, "rollback")
                       ELSE Respond(srv, t, 200))
                 ELSE IF th.r.op = "recent" THEN Goto(made, t, "select")
                 ELSE IF strptime(strip(th.r.data.timestamp.s)).ok
                 THEN Goto(made, t, "execute")
                 ELSE Respond(srv, t, 500)
    /\ UNCHANGED others

\* cursor.execute(insert_query, record_data), on the connection the cursor
\* was made on. The statement is rejected (Error), or the connection is gone:
\* closed by the server (Error), or already finalized after it was replaced
\* (the cursor's weak reference is dead, which is not an Error: return False)
ExecuteInsert(t) ==
    /\ Thread(t).pc = "execute"
    /\ LET th == Thread(t)
           c == th.cursor
           d == execute_insert(OnConn(srv, c),
                               strip(th.r.data.student_mac_address.s),
                               int(th.r.data.classroom_id).n,
                               strptime(strip(th.r.data.timestamp.s)).dt)
       IN IF srv.conns[c].open /\ th.r.fault = "none"
          THEN /\ srv.nextId <= MaxRecords
               /\ srv' = Goto([Stored(srv, c, d) EXCEPT !.threads[t].id = srv.nextId],
                              t, "commit")
          ELSE \/ srv' = Goto(srv, t, "rollback")
               \/ /\ ~srv.conns[c].open /\ c # srv.connection
                  /\ srv' = Respond(srv, t, 500)
    /\ UNCHANGED others

\* self.connection.commit(), on the connection the handle holds now; then
\* cursor.lastrowid and cursor.close(), which fails when the cursor's
\* connection was replaced and finalized
Commit(t) ==
    /\ Thread(t).pc = "commit"
    /\ LET h == srv.connection
           done == Stored(srv, h, commit(OnConn(srv, h)))
       IN IF srv.conns[h].open
          THEN \/ srv' = Respond(done, t, 200)
               \/ /\ Thread(t).cursor # h /\ ~srv.conns[Thread(t).cursor].open
                  /\ srv' = Respond(done, t, 500)
          ELSE srv' = Goto(srv, t, "rollback")
    /\ UNCHANGED others

\* except Error: if self.connection: self.connection.rollback(), on the
\* connection the handle holds now; return False (or rollback raises on a
\* closed connection and the handler answers 500 all the same)
Rollback(t) ==
    /\ Thread(t).pc = "rollback"
    /\ LET h == srv.connection
       IN srv' = IF h # 0 /\ srv.conns[h].open
                 THEN Respond(Stored(srv, h, rollback(OnConn(srv, h))), t, 500)
                 ELSE Respond(srv, t, 500)
    /\ UNCHANGED others

\* cursor.execute(query, (limit,)) and fetchall(): the rows, or [] on Error;
\* the handler answers 200 either way
ExecuteSelect(t) ==
    /\ Thread(t).pc = "select"
    /\ srv' = Respond(srv, t, 200)
    /\ UNCHANGED others

\* a connection the handle no longer holds is finalized by the Python
\* runtime: it is closed, and the server rolls its transaction back
Finalize ==
    /\ \E c \in 1..Len(srv.conns) :
          /\ c # srv.connection /\ srv.conns[c].open
          /\ srv' = [srv EXCEPT !.conns[c] = Connection(FALSE)]
    /\ UNCHANGED others

\* the MySQL server becomes unreachable: every connection is lost
ServerDown ==
    /\ srv.up
    /\ srv' = [srv EXCEPT !.up = FALSE,
                          !.conns = [c \in 1..Len(srv.conns) |-> Connection(FALSE)]]
    /\ UNCHANGED others

\* the MySQL server is reachable again
ServerBack ==
    /\ ~srv.up
    /\ srv' = [srv EXCEPT !.up = TRUE]
    /\ UNCHANGED others

ThreadStep(t) ==
    \/ Accept(t)
    \/ CheckHandle(t)
    \/ ThreadConnect(t)
    \/ OpenCursor(t)
    \/ ExecuteInsert(t)
    \/ Commit(t)
    \/ Rollback(t)
    \/ ExecuteSelect(t)

ThreadedNext ==
    \/ \E t \in Threads : ThreadStep(t)
    \/ Finalize
    \/ ServerDown
    \/ ServerBack

\* the server started, its threads waiting for requests
ThreadedInit ==
    /\ ServerInit
    /\ sc = ScannerBoot
    /\ flt = FilterCall(<<>>, Bytes(<<>>))
    /\ srv = ThreadedBoot(db, storeUp)

ThreadedSpec == ThreadedInit /\ [][ThreadedNext]_vars

----------------------------------------------------------------------------
(* Vocabulary of the claims *)

IsRecord == req.op = "record"
IsRecent == req.op = "recent"

\* the three fields are present, address and timestamp are strings
Shaped(r) ==
    /\ r.kind = "object" /\ missing_fields(r) = <<>>
    /\ r.data.student_mac_address.t = "str" /\ r.data.timestamp.t = "str"

AddressOk(r) == strip(r.data.student_mac_address.s) # <<>>

ClassroomOk(r) ==
    int(r.data.classroom_id).exc = "none" /\ int(r.data.classroom_id).n > 0

TimestampOk(r) == strptime(strip(r.data.timestamp.s)).ok

\* a valid payload: non-empty address, classroom id coercing to an integer
\* above 0, timestamp that parses
ValidPayload(r) == Shaped(r) /\ AddressOk(r) /\ ClassroomOk(r) /\ TimestampOk(r)

\* the store was reachable and accepted every statement of the request
StoreAccepted(r) == r.up /\ r.fault = "none"

IsPrefix(a, b) == Len(a) <= Len(b) /\ SubSeq(b, 1, Len(a)) = a

\* the row the request added, when it added one
NewRow == Visible(db)[Len(pre) + 1]

GrewByOne == Len(Visible(db)) = Len(pre) + 1 /\ IsPrefix(pre, Visible(db))

\* a timestamp string in the fixed width form YYYY-MM-DD HH:MM:SS
WellFormed(s) ==
    /\ Len(s) = 19
    /\ \A i \in {1, 2, 3, 4, 6, 7, 9, 10, 12, 13, 15, 16, 18, 19} : IsDigit(s[i])
    /\ s[5] = "-" /\ s[8] = "-" /\ s[11] = " " /\ s[14] = ":" /\ s[17] = ":"

----------------------------------------------------------------------------
(* Claims *)

\* C1: a valid payload submitted while the store is reachable and accepts the
\* write is answered 200 with success = true, and the record set afterwards is
\* the record set before plus exactly one new record whose address (trimmed),
\* classroom id (coerced) and timestamp (parsed) are those of the input.
C1_ValidPayloadStored ==
    (IsRecord /\ ValidPayload(req) /\ StoreAccepted(req)) =>
        /\ resp.status = 200 /\ resp.success
        /\ GrewByOne
        /\ NewRow.mac = strip(req.data.student_mac_address.s)
        /\ NewRow.cid = int(req.data.classroom_id).n
        /\ NewRow.ts = strptime(strip(req.data.timestamp.s)).dt

\* a valid payload was accepted into a store that already held a record
C1_Witness ==
    /\ IsRecord /\ ValidPayload(req) /\ StoreAccepted(req)
    /\ resp.status = 200 /\ Len(pre) >= 1

\* C2: every payload object lacking one or more of the three required fields,
\* the one lacking all three included, is answered 400 with a message naming
\* exactly the missing fields, and the record set is unchanged.
C2_MissingFieldsNamed ==
    (IsRecord /\ req.kind = "object" /\ missing_fields(req) # <<>>) =>
        /\ resp.status = 400
        /\ resp.message = "Missing required fields"
        /\ resp.missing = missing_fields(req)
        /\ Visible(db) = pre

\* C3: a payload with the three fields present, a valid address and classroom
\* id, and a timestamp that does not parse is answered with a client error
\* (4xx), not a server error, and no record is stored (stated here for the
\* requests handled while the store is reachable and rejects nothing).
C3_BadTimestampIsClientError ==
    (IsRecord /\ Shaped(req) /\ AddressOk(req) /\ ClassroomOk(req)
        /\ ~TimestampOk(req) /\ StoreAccepted(req)) =>
        /\ resp.status >= 400 /\ resp.status <= 499
        /\ Visible(db) = pre

\* C4: a request that fails any of the five validation checks causes no
\* connect, reconnect, cursor or statement on the store handle.
C4_ValidationBeforeStoreAccess ==
    (IsRecord /\ ~ValidPayload(req)) => trace = <<>>

\* C5: every request that fails validation is answered 400, never 5xx,
\* whatever the values of the fields (numeric address or timestamp, null or
\* non-integer classroom id).
C5_ValidationFailureIs400 ==
    (IsRecord /\ ~ValidPayload(req)) => resp.status = 400

\* C6: the checks are reported in the order payload, fields, address,
\* classroom id, timestamp; in particular a payload whose three fields are
\* present and whose address is empty after trimming gets the address error,
\* whatever its classroom id and timestamp are.
C6_AddressErrorReportedFirst ==
    (IsRecord /\ req.kind = "object" /\ missing_fields(req) = <<>>
        /\ req.data.student_mac_address.t = "str" /\ ~AddressOk(req)) =>
        resp.message = "Student MAC address cannot be empty"

\* C7: with the other two fields valid, a classroom id of 0 or below is
\* answered 400 and nothing is stored; classroom id 1, with the store
\* reachable and accepting the write, is answered 200 and one record is stored.
C7_ClassroomIdBoundary ==
    (IsRecord /\ Shaped(req) /\ AddressOk(req) /\ TimestampOk(req)
        /\ int(req.data.classroom_id).exc = "none") =>
        /\ int(req.data.classroom_id).n <= 0 =>
              resp.status = 400 /\ Visible(db) = pre
        /\ (int(req.data.classroom_id).n = 1 /\ StoreAccepted(req)) =>
              resp.status = 200 /\ GrewByOne

\* classroom id 0 was rejected by a reachable store that holds a record
C7_Witness ==
    /\ IsRecord /\ Shaped(req) /\ AddressOk(req) /\ TimestampOk(req)
    /\ req.data.classroom_id = Num(0) /\ req.up
    /\ resp.status = 400 /\ Len(pre) >= 1

\* C8: when the store is unreachable or rejects a statement while a valid
\* payload is recorded, the answer is 500, nothing of the write is left on
\* the handle's transaction, and the record set equals the one before.
C8_StoreFailureRollsBack ==
    (IsRecord /\ ValidPayload(req) /\ ~StoreAccepted(req)) =>
        /\ resp.status = 500 /\ ~resp.success
        /\ Visible(db) = pre

\* the commit of a valid payload's row was rejected and rolled back
C8_Witness ==
    /\ IsRecord /\ ValidPayload(req) /\ req.up /\ req.fault = "commit"
    /\ resp.status = 500
    /\ trace[Len(trace)] = "rollback"

\* C9: a timestamp submitted in the fixed width form YYYY-MM-DD HH:MM:SS and
\* accepted comes back from RecentAttendance, on the record it created, as
\* the same string character for character.
C9_TimestampRoundTrip ==
    IsRecent =>
        \A i \in 1..Len(resp.data) : \A j \in 1..Len(sent) :
            (sent[j].id = resp.data[i].id /\ WellFormed(sent[j].timestamp)) =>
                resp.data[i].entry_timestamp = sent[j].timestamp

\* a record submitted in the fixed width form was returned by the query
C9_Witness ==
    /\ IsRecent
    /\ \E i \in 1..Len(resp.data) : \E j \in 1..Len(sent) :
          sent[j].id = resp.data[i].id /\ WellFormed(sent[j].timestamp)

\* the limit a request asks for, 10 when omitted
AskedLimit(r) == IF r.limit.t = "absent" THEN DefaultLimit ELSE int(r.limit).n

PositiveLimit(r) ==
    r.limit.t = "absent" \/ (int(r.limit).exc = "none" /\ int(r.limit).n > 0)

\* the returned rows are a descending, leading part of the stored rows
TopDescending ==
    /\ \A i, j \in 1..Len(resp.data) :
          i < j => DtLeq(strptime(resp.data[j].entry_timestamp).dt,
                         strptime(resp.data[i].entry_timestamp).dt)
    /\ \A i \in 1..Len(resp.data) : \A k \in 1..Len(pre) :
          (\A j \in 1..Len(resp.data) : resp.data[j].id # pre[k].id) =>
              DtLeq(pre[k].ts, strptime(resp.data[i].entry_timestamp).dt)
    /\ \A i \in 1..Len(resp.data) : \E k \in 1..Len(pre) :
          resp.data[i] = render(pre[k])
    /\ \A i, j \in 1..Len(resp.data) :
          i # j => resp.data[i].id # resp.data[j].id

\* C10: for a store holding N records and a positive limit L (10 when
\* omitted), RecentAttendance returns exactly min(L, 100, N) records, in
\* descending timestamp order, none older than a record it left out.
C10_RecentReturnsTopRecords ==
    (IsRecent /\ PositiveLimit(req)) =>
        /\ Len(resp.data) = Min({AskedLimit(req), MaxLimit, Len(pre)})
        /\ TopDescending

\* C10 restricted to requests served by a reachable store whose query succeeds
C10_RecentReturnsTopRecordsWhenServed ==
    (IsRecent /\ PositiveLimit(req) /\ StoreAccepted(req)) =>
        /\ Len(resp.data) = Min({AskedLimit(req), MaxLimit, Len(pre)})
        /\ TopDescending

----------------------------------------------------------------------------
(* Reading, health and the record set *)

IsHealth == req.op = "health"

Hundred == Str(<<"1", "0", "0">>)

\* the limit the last request asked for is an integer above the cap
AboveCap(r) ==
    r.limit.t = "str" /\ int(r.limit).exc = "none" /\ int(r.limit).n > MaxLimit

\* the responses a request with limit = 100 can get in the store state in
\* which the last request was answered
ResponsesAtCap ==
    {get_recent_attendance(db, req.up, [req EXCEPT !.limit = Hundred], o).resp :
        o \in SortedOrders(Visible(db))}

\* C11: a recent-attendance request with a limit above 100 is not rejected,
\* the statement it executes is the one limit = 100 executes (LIMIT 100), its
\* response is one that limit = 100 gets, and no response carries more than
\* 100 records.
C11_LimitClampedTo100 ==
    /\ Len(resp.data) <= MaxLimit
    /\ (IsRecent /\ AboveCap(req)) =>
           /\ resp.status = 200 /\ resp.success
           /\ params \in {<<>>, <<MaxLimit>>}
           /\ resp \in ResponsesAtCap

C11_Witness ==
    /\ IsRecent /\ AboveCap(req) /\ params = <<MaxLimit>>
    /\ Len(resp.data) = Len(db.records) /\ Len(resp.data) >= 2

\* C12: a recent-attendance request on a store that holds no record is
\* answered 200 with success = true and an empty data sequence, whatever
\* limit it asked for.
C12_EmptyStoreEmptyList ==
    (IsRecent /\ pre = <<>>) =>
        resp.status = 200 /\ resp.success /\ resp.data = <<>>

C12_Witness ==
    /\ IsRecent /\ pre = <<>> /\ req.up /\ trace # <<>>
    /\ req.limit = Str(<<"-", "1">>) /\ resp.status = 200

\* C13: a health check is always answered 200 with success = true, and its
\* database_status is "connected" exactly when the connectivity probe
\* succeeded and "disconnected" exactly when it failed.
C13_HealthAlwaysOk ==
    IsHealth =>
        /\ resp.status = 200 /\ resp.success
        /\ (resp.database_status = "connected") <=> req.up
        /\ (resp.database_status = "disconnected") <=> ~req.up

C13_Witness ==
    IsHealth /\ ~req.up /\ resp.status = 200
        /\ resp.database_status = "disconnected"

\* the stored datetime is one the format YYYY-MM-DD HH:MM:SS denotes
ParsesBack(ts) == strptime(strftime(ts)).ok /\ strptime(strftime(ts)).dt = ts

\* C14: every persisted record has a classroom id above zero, an address
\* that is non-empty after trimming, and an entry timestamp that parses
\* under YYYY-MM-DD HH:MM:SS.
C14_PersistedRecordsValid ==
    \A i \in 1..Len(Visible(db)) :
        LET row == Visible(db)[i]
        IN row.cid > 0 /\ strip(row.mac) # <<>> /\ ParsesBack(row.ts)

C14_Witness ==
    Len(db.records) >= 2 /\ db.records[1].ts # db.records[2].ts

\* C15: no request updates or deletes a record: a recent-attendance request
\* and a health check leave the record set as it was, a POST leaves every
\* earlier record as it was and adds one record when it is accepted and
\* none otherwise, and each record was created by one accepted POST with an
\* id above the id of every record created before it.
C15_AppendOnly ==
    LET rows == Visible(db)
    IN /\ IsPrefix(pre, rows)
       /\ (IsRecent \/ IsHealth) => rows = pre
       /\ IsRecord => Len(rows) = Len(pre) + (IF resp.status = 200 THEN 1 ELSE 0)
       /\ \A i, j \in 1..Len(rows) : i < j => rows[i].id < rows[j].id
       /\ Len(sent) = Len(rows)
       /\ \A i \in 1..Len(rows) : sent[i].id = rows[i].id

C15_Witness ==
    /\ IsRecord /\ resp.status = 200 /\ Len(pre) >= 1
    /\ Len(db.records) = Len(pre) + 1
    /\ db.records[Len(db.records)].id > db.records[Len(pre)].id

----------------------------------------------------------------------------
(* The scanner and the server end to end *)

\* a tick has run to its end and the next one has not begun
TickDone == sc.pc = "idle" /\ sc.last \in {"slept", "recovered"}

\* the tick detected one matching beacon, and every request it sent
\* reached the server while the store was up
OneBeaconAllUp ==
    /\ TickDone /\ sc.last = "slept" /\ Len(sc.detected_beacons) = 1
    /\ \A k \in 1..Len(sc.attempts) :
          sc.attempts[k].delivered /\ sc.attempts[k].up

\* the rows that hold the Sighting of attempt a under the id it created
RowsOf(a) ==
    {i \in 1..Len(Visible(db)) :
        /\ Visible(db)[i].id = a.id
        /\ Visible(db)[i].mac = a.sighting.mac_address
        /\ Visible(db)[i].cid = CLASSROOM_ID
        /\ strftime(Visible(db)[i].ts) = a.sighting.timestamp}

\* one POST was made, it was accepted and it added one row, the Sighting's
PostedAndStoredOnce ==
    /\ Len(sc.attempts) = 1
    /\ sc.attempts[1].sighting = sc.detected_beacons[1]
    /\ sc.attempts[1].status = 200
    /\ sc.attempts[1].after = sc.attempts[1].before + 1
    /\ Cardinality(RowsOf(sc.attempts[1])) = 1

\* the last request is a RecentAttendance(limit = 1) answered with the
\* store up
QueriedLatest == IsRecent /\ req.limit = Str(<<"1">>) /\ req.up

\* the response carries exactly the row of attempt a
ReturnsRowOf(a) ==
    /\ Len(resp.data) = 1
    /\ resp.data[1].id = a.id
    /\ resp.data[1].student_mac_address = a.sighting.mac_address
    /\ resp.data[1].classroom_id = CLASSROOM_ID
    /\ resp.data[1].entry_timestamp = a.sighting.timestamp

\* every other row of the store is older than the row of attempt a
StrictlyLatest(a) ==
    \A i \in 1..Len(Visible(db)) :
        Visible(db)[i].id # a.id =>
            DtLess(Visible(db)[i].ts, strptime(a.sighting.timestamp).dt)

\* C16 as stated: after a tick that detected one matching beacon with the
\* network and the store up, one POST was made and one row stored, and a
\* following RecentAttendance(limit = 1) returns that row, whatever the
\* store held before.
C16_EndToEnd ==
    OneBeaconAllUp =>
        /\ PostedAndStoredOnce
        /\ QueriedLatest => ReturnsRowOf(sc.attempts[1])

\* C16 (amended): after a tick that detected one matching beacon with the
\* network and the store up, one POST was made and one row stored with the
\* beacon's address, the scanner's classroom id and the Sighting's
\* timestamp, and a following RecentAttendance(limit = 1) returns that row
\* when every other stored record has an earlier entry timestamp.
C16_EndToEndWhenLatest ==
    OneBeaconAllUp =>
        /\ PostedAndStoredOnce
        /\ (QueriedLatest /\ StrictlyLatest(sc.attempts[1]))
              => ReturnsRowOf(sc.attempts[1])

C16_Witness ==
    /\ OneBeaconAllUp /\ PostedAndStoredOnce /\ QueriedLatest
    /\ Len(Visible(db)) = 2 /\ StrictlyLatest(sc.attempts[1])
    /\ ReturnsRowOf(sc.attempts[1])

\* C17: the loop has no terminal error state: unless it is cancelled from
\* outside, it always eventually begins another scan window, whatever
\* scan, clock, transmission or other exception its ticks met.
C17_AlwaysScansAgain == []<>(sc.pc = "scanning" \/ sc.last = "cancelled")

C17_Witness == sc.pc = "scanning" /\ sc.erred /\ sc.prev = "idle"

CyclicMoves ==
    {<<"idle", "idle">>, <<"idle", "scanning">>, <<"scanning", "collecting">>,
     <<"collecting", "reporting">>, <<"reporting", "idle">>}

\* a request was sent only after the window closed and each of its results
\* was filtered, and carries a timestamp the clock routine produced
ReportedAfterCollection ==
    sc.attempts # <<>> =>
        /\ sc.pc \in {"reporting", "idle"}
        /\ sc.scan_results = <<>> /\ sc.i = sc.window + 1
        /\ \A k \in 1..Len(sc.attempts) :
              \E rtc \in RtcReadings :
                 sc.attempts[k].sighting.timestamp = get_current_timestamp(rtc)

\* the entries sent are entries appended in this tick, in the same order
ReportedFromThisTick ==
    /\ Len(sc.attempts) <= Len(sc.collected)
    /\ \A k \in 1..Len(sc.attempts) : sc.attempts[k].sighting = sc.collected[k]

\* C18 as stated: the loop changes phase only along Idle, Scanning,
\* Collecting, Reporting, Idle (or is cancelled), no Sighting is sent
\* before its window closed and every result was filtered and timestamped,
\* and every Sighting sent in a tick was collected in that tick.
C18_PhasesInCyclicOrder ==
    /\ sc.pc = "stopped" \/ <<sc.prev, sc.pc>> \in CyclicMoves
    /\ ReportedAfterCollection
    /\ ReportedFromThisTick

\* C18 (amended): as stated, except that a scan that raises before its
\* results are read goes from Scanning straight to Reporting, with no
\* Sighting to report.
C18_PhasesInCyclicOrderUnlessScanFails ==
    /\ \/ sc.pc = "stopped"
       \/ <<sc.prev, sc.pc>> \in CyclicMoves
       \/ /\ sc.prev = "scanning" /\ sc.pc = "reporting"
          /\ sc.detected_beacons = <<>> /\ sc.attempts = <<>>
    /\ ReportedAfterCollection
    /\ ReportedFromThisTick

C18_Witness ==
    /\ sc.pc = "reporting" /\ sc.prev = "collecting"
    /\ Len(sc.collected) = 2 /\ Len(sc.attempts) = 1 /\ sc.window = 2

\* C19: the requests sent in a tick are the detected entries in their
\* order, one each: while reporting, as many as entries passed; after a
\* failed request the loop is still reporting; and at the end of the tick
\* exactly as many requests were sent as entries were detected.
C19_OneAttemptPerSighting ==
    /\ \A k \in 1..Len(sc.attempts) :
          /\ k <= Len(sc.detected_beacons)
          /\ sc.attempts[k].sighting = sc.detected_beacons[k]
    /\ sc.pc = "reporting" => Len(sc.attempts) = sc.j - 1
    /\ sc.last = "send_failed" => sc.pc = "reporting"
    /\ TickDone => Len(sc.attempts) = Len(sc.detected_beacons)

C19_Witness ==
    /\ TickDone /\ Len(sc.attempts) = 2
    /\ sc.attempts[1].status # 200 /\ sc.attempts[2].status = 200

----------------------------------------------------------------------------
(* The Beacon Filter *)

Separators == {"-"}

\* the value of a hexadecimal digit of either case, -1 for another character
HexValue(c) ==
    IF \E v \in 0..15 : HexDigits[v + 1] = c
    THEN CHOOSE v \in 0..15 : HexDigits[v + 1] = c
    ELSE IF \E v \in 10..15 : UpperCase[v - 9] = c
    THEN CHOOSE v \in 10..15 : UpperCase[v - 9] = c
    ELSE -1

\* the identifier without its separators, digit by digit
TargetNibbles(t) ==
    LET kept == SelectSeq(t, LAMBDA c : c \notin Separators)
    IN [i \in 1..Len(kept) |-> HexValue(kept[i])]

\* the payload as its half-bytes, high half first
PayloadNibbles(b) ==
    [i \in 1..(2 * Len(b)) |->
        IF i % 2 = 1 THEN b[(i + 1) \div 2] \div 16 ELSE b[i \div 2] % 16]

Occurs(n, h) ==
    \E i \in 0..(Len(h) - Len(n)) : \A k \in 1..Len(n) : h[i + k] = n[k]

\* the identifier, separators removed and case ignored, is a contiguous
\* part of the hexadecimal rendering of the payload
IsHexSubstring(t, a) ==
    LET n == TargetNibbles(t)
    IN /\ a.t = "bytes"
       /\ \A i \in 1..Len(n) : n[i] >= 0
       /\ Occurs(n, PayloadNibbles(a.b))

EmptyOrMalformed(a) == a.t # "bytes" \/ a.b = <<>>

\* C20 as stated: the filter answers true exactly when the identifier is a
\* contiguous part of the payload's hexadecimal rendering, and an empty or
\* malformed payload yields false.
C20_FilterIsHexSubstring ==
    flt.done =>
        /\ flt.ret <=> IsHexSubstring(flt.target_uuid, flt.adv_data)
        /\ EmptyOrMalformed(flt.adv_data) => ~flt.ret

\* C20 (amended): the filter answers true exactly when the identifier is a
\* contiguous part of the payload's hexadecimal rendering; a malformed
\* payload yields false, and an empty payload yields false unless the
\* identifier is empty once its separators are removed.
C20_FilterIsHexSubstringNonEmptyTarget ==
    flt.done =>
        /\ flt.ret <=> IsHexSubstring(flt.target_uuid, flt.adv_data)
        /\ flt.adv_data.t # "bytes" => ~flt.ret
        /\ (flt.adv_data.b = <<>> /\ TargetNibbles(flt.target_uuid) # <<>>)
              => ~flt.ret

C20_Witness ==
    /\ flt.done /\ flt.ret
    /\ flt.target_uuid = TARGET_SERVICE_UUID /\ flt.adv_data = AdvMatch

----------------------------------------------------------------------------
(* The clock sentinel *)

\* the advertisement payloads of the scan windows
WindowPayloads ==
    UNION {{rs[k].adv_data : k \in 1..Len(rs)} : rs \in ScanOutcomes}

\* the answer of the Beacon Filter, with the scanner's identifier, to each
TargetFilter ==
    [a \in WindowPayloads |-> is_target_beacon(TARGET_SERVICE_UUID, a)]

\* the results among the first n of a window that the Beacon Filter accepts
Matching(results, n) ==
    SelectSeq([k \in 1..n |-> results[k]],
              LAMBDA r : r.ok /\ TargetFilter[r.adv_data])

\* the entry is the Sighting of the result: its address, its signal strength
FromResult(entry, result) ==
    entry.mac_address = mac_string(result.addr) /\ entry.rssi = result.rssi

\* the timestamps the clock routine returns that the server's parse accepts
AcceptedStamps ==
    {ts \in {get_current_timestamp(rtc) : rtc \in RtcReadings} :
        strptime(strip(ts)).ok}

StampAccepted(ts) == ts \in AcceptedStamps

\* C21: while a window is collected, the Sightings built are the results
\* seen so far that match the Beacon Filter, one each and in their order,
\* also when the clock could not be read: the Sighting then carries the
\* sentinel 1970-01-01 00:00:00 and the loop is still collecting; every
\* Sighting's timestamp is accepted by the server's timestamp parse; at the
\* end of a tick whose collection returned its list, each collected Sighting
\* was sent; and a Sighting that reached the server with the store up was
\* answered 200.
C21_SentinelSightingReported ==
    /\ sc.pc = "collecting" =>
          LET m == Matching(sc.scan_results, sc.i - 1)
          IN /\ Len(sc.detected_beacons) = Len(m)
             /\ \A k \in 1..Len(m) : FromResult(sc.detected_beacons[k], m[k])
             /\ sc.collected = sc.detected_beacons
    /\ \A k \in 1..Len(sc.collected) : StampAccepted(sc.collected[k].timestamp)
    /\ sc.last = "detected" => sc.pc = "collecting"
    /\ (TickDone /\ sc.collected = sc.detected_beacons) =>
          /\ Len(sc.attempts) = Len(sc.collected)
          /\ \A k \in 1..Len(sc.collected) :
                sc.attempts[k].sighting = sc.collected[k]
    /\ \A k \in 1..Len(sc.attempts) :
          (sc.attempts[k].delivered /\ sc.attempts[k].up) =>
              sc.attempts[k].status = 200

\* a tick whose clock failed for one of two Sightings has ended: both were
\* sent, and the one with the sentinel is stored under the epoch date
C21_Witness ==
    /\ TickDone /\ Len(sc.attempts) = 2
    /\ sc.attempts[1].sighting.timestamp = EpochSentinel
    /\ sc.attempts[2].sighting.timestamp # EpochSentinel
    /\ sc.attempts[1].status = 200
    /\ \E i \in 1..Len(db.records) :
          /\ db.records[i].id = sc.attempts[1].id
          /\ db.records[i].ts = <<1970, 1, 1, 0, 0, 0>>

----------------------------------------------------------------------------
(* Reconnect on demand *)

\* the request calls a store operation: a recent-records query, or a POST
\* that passed the handler's checks
StoreOperation(r) ==
    \/ r.op = "recent"
    \/ r.op = "record" /\ Shaped(r) /\ AddressOk(r) /\ ClassroomOk(r)

Statements == {"cursor", "execute", "commit", "rollback"}

Has(tr, x) == \E i \in 1..Len(tr) : tr[i] = x

\* every connect of the trace comes before its first statement
ConnectFirst(tr) ==
    \A i, k \in 1..Len(tr) :
        (tr[i] = "connect" /\ tr[k] \in Statements) => i < k

\* C23: a request that calls a store operation first checks the handle: an
\* absent handle is connected, a handle that is not connected is probed and
\* then connected, an open handle is probed and not connected again; when
\* the connect succeeds the operation goes on with its statements on the new
\* connection; when it fails no statement is issued, the record set is as
\* before, a POST is answered 500 and a query returns an empty list.
C23_ReconnectOnDemand ==
    [][(storeUp' = storeUp /\ StoreOperation(req')) =>
          /\ db.conn = "none" => trace'[1] = "connect"
          /\ db.conn = "stale" =>
                trace'[1] = "is_connected" /\ trace'[2] = "connect"
          /\ db.conn = "open" =>
                trace'[1] = "is_connected" /\ ~Has(trace', "connect")
          /\ ConnectFirst(trace')
          /\ (db.conn # "open" /\ storeUp) =>
                db'.conn = "open" /\ Has(trace', "cursor")
          /\ (db.conn # "open" /\ ~storeUp) =>
                /\ \A i \in 1..Len(trace') : trace'[i] \notin Statements
                /\ db'.conn = db.conn
                /\ Visible(db') = Visible(db) /\ db'.nextId = db.nextId
                /\ req'.op = "record" =>
                      resp'.status = 500 /\ ~resp'.success
                /\ req'.op = "recent" => resp'.data = <<>>]_vars

\* a POST found the handle not connected, reconnected and stored its record
C23_Witness ==
    /\ IsRecord /\ resp.status = 200 /\ Len(db.records) = Len(pre) + 1
    /\ trace = <<"is_connected", "connect", "cursor", "execute", "commit">>

----------------------------------------------------------------------------
(* Failed queries *)

\* C25: a recent-attendance response with success = true and an empty data
\* sequence, for a limit of at least 1, is given only when the store holds
\* no record: an unreachable store or a failed query is not answered as a
\* successful empty result.
C25_EmptySuccessMeansEmptyStore ==
    (IsRecent /\ PositiveLimit(req) /\ resp.success /\ resp.data = <<>>) =>
        pre = <<>>

----------------------------------------------------------------------------
(* Concurrent requests on the shared handle *)

\* the committed rows that hold the record of the thread's POST, under the
\* id its INSERT was given
RowsOfThread(t) ==
    {i \in 1..Len(srv.records) :
        /\ srv.records[i].id = Thread(t).id
        /\ srv.records[i].mac = strip(Thread(t).r.data.student_mac_address.s)
        /\ srv.records[i].cid = int(Thread(t).r.data.classroom_id).n
        /\ srv.records[i].ts = strptime(strip(Thread(t).r.data.timestamp.s)).dt}

\* the thread's last request is a POST and it has been answered
AnsweredRecord(t) ==
    Thread(t).pc = "idle" /\ Thread(t).r.op = "record" /\ Thread(t).status # 0

\* C22: under every interleaving of the threads, a POST answered 200 has
\* exactly one committed row with its record, and a POST answered with an
\* error has none.
C22_AcceptedExactlyOnce ==
    \A t \in Threads :
        AnsweredRecord(t) =>
            IF Thread(t).status = 200
            THEN Cardinality(RowsOfThread(t)) = 1
            ELSE RowsOfThread(t) = {}

\* the connections of the threaded server s that are open
OpenConnections(s) == {c \in 1..Len(s.conns) : s.conns[c].open}

\* in s every request has been answered, and no two were in progress together
AfterSerialRequests(s) ==
    ~s.overlap /\ \A t \in Threads : s.threads[t].pc = "idle"

\* C24: while requests are handled one after the other, a new connection
\* is opened only when the handle is absent or not connected, and once
\* every request is answered at most one store connection is open.
C24_OneOpenConnection ==
    [][~srv'.overlap =>
          /\ Len(srv'.conns) > Len(srv.conns) =>
                (srv.connection = 0 \/ ~srv.conns[srv.connection].open)
          /\ AfterSerialRequests(srv') =>
                Cardinality(OpenConnections(srv')) <= 1]_vars

====
